---- MODULE Spec2Model ----
(***************************************************************************)
(* Model of make.py: the template materializer (init_package's copy +     *)
(* fixup_template) and the staged run of main().                           *)
(*                                                                         *)
(* Text is a sequence of symbols.  A symbol is either one of the two brace *)
(* characters or a brace-free chunk of characters (a word), so that the    *)
(* format-string scanner treats a symbol exactly as it treats characters.  *)
(***************************************************************************)
EXTENDS Integers, Sequences, FiniteSets, TLC

LB == "{"
RB == "}"
Absent == <<"<absent>">>
IsDir == <<"<dir>">>
NoKey == <<"<none>">>

\* ---------------------------------------------------------------- bounds
MaxPieces == 3
MaxRuns == 2

\* ------------------------------------------------------- licenses.py
\* a source locator is a sequence: <<"::", alias>> or <<url>>
Cal == <<"::", "cal">>
LICENSES ==
  [ x \in {} |-> [title |-> ""] ]
  @@ ("afl-3.0" :> [title |-> "Academic Free License v3.0", abbr |-> "AFL",
        classifier |-> "License :: OSI Approved :: Academic Free License (AFL)", src |-> Cal])
  @@ ("agpl-3.0" :> [title |-> "GNU Affero General Public License v3.0",
        classifier |-> "License :: OSI Approved :: GNU Affero General Public License v3", src |-> Cal])
  @@ ("apache-2.0" :> [title |-> "Apache License 2.0",
        classifier |-> "License :: OSI Approved :: Apache Software License", src |-> Cal])
  @@ ("artistic-2.0" :> [title |-> "Artistic License 2.0",
        classifier |-> "License :: OSI Approved :: Artistic License", src |-> Cal])
  @@ ("bsd-2-clause" :> [title |-> "BSD 2-clause \"Simplified\" License",
        classifier |-> "License :: OSI Approved :: BSD License", src |-> Cal])
  @@ ("bsd-3-clause-clear" :> [title |-> "BSD 3-clause Clear License",
        classifier |-> "License :: OSI Approved :: BSD License", src |-> Cal])
  @@ ("bsd-3-clause" :> [title |-> "BSD 3-clause \"New\" or \"Revised\" License",
        classifier |-> "License :: OSI Approved :: BSD License", src |-> Cal])
  @@ ("eupl-1.1" :> [title |-> "European Union Public License 1.1",
        classifier |-> "License :: OSI Approved :: European Union Public Licence 1.1 (EUPL 1.1)", src |-> Cal])
  @@ ("cc0-1.0" :> [title |-> "CC0 1.0 Universal Public Domain Dedication",
        classifier |-> "License :: CC0 1.0 Universal (CC0 1.0) Public Domain Dedication", src |-> Cal])
  @@ ("gfdl-1.3" :> [title |-> "GNU Free Documentation License 1.3",
        classifier |-> "License :: OSI Approved :: GNU Free Documentation License (FDL)",
        src |-> <<"https://www.gnu.org/licenses/fdl.txt">>])
  @@ ("gpl-2.0" :> [title |-> "GNU General Public License, version 2",
        classifier |-> "License :: OSI Approved :: GNU General Public License v2 (GPLv2)",
        src |-> <<"https://www.gnu.org/licenses/gpl-2.0.txt">>])
  @@ ("gpl-3.0" :> [title |-> "GNU General Public License, version 3",
        classifier |-> "License :: OSI Approved :: GNU General Public License v3 (GPLv3)",
        src |-> <<"https://www.gnu.org/licenses/gpl-3.0.txt">>])
  @@ ("lgpl-2.1" :> [title |-> "GNU Lesser General Public License v2.1",
        classifier |-> "License :: OSI Approved :: GNU Lesser General Public License v2 (LGPLv2)",
        src |-> <<"https://www.gnu.org/licenses/lgpl-2.1.txt">>])
  @@ ("lgpl-3.0" :> [title |-> "GNU Lesser General Public License v3.0",
        classifier |-> "License :: OSI Approved :: GNU Lesser General Public License v3 (LGPLv3)",
        src |-> <<"https://www.gnu.org/licenses/lgpl-3.0.txt">>])
  @@ ("isc" :> [title |-> "ISC License",
        classifier |-> "License :: OSI Approved :: ISC License (ISCL)", src |-> Cal])
  @@ ("mit" :> [title |-> "MIT License",
        classifier |-> "License :: OSI Approved :: MIT License", src |-> Cal])
  @@ ("mpl-2.0" :> [title |-> "Mozilla Public License 2.0",
        classifier |-> "License :: OSI Approved :: Mozilla Public License 2.0 (MPL 2.0)", src |-> Cal])
  @@ ("other" :> [title |-> "Other/Proprietary License",
        classifier |-> "License :: Other/Proprietary License"])
  @@ ("cc-by-4.0" :> [title |-> "Creative Commons Attribution 4.0", src |-> Cal])
  @@ ("cc-by-sa-4.0" :> [title |-> "Creative Commons Attribution Share Alike 4.0", src |-> Cal])
  @@ ("epl-1.0" :> [title |-> "Eclipse Public License 1.0", src |-> Cal])
  @@ ("lppl-1.3c" :> [title |-> "LaTeX Project Public License v1.3c", src |-> Cal])
  @@ ("ms-pl" :> [title |-> "Microsoft Public License", src |-> Cal])
  @@ ("ms-rl" :> [title |-> "Microsoft Reciprocal License", src |-> Cal])
  @@ ("ofl-1.1" :> [title |-> "SIL Open Font License 1.1", src |-> Cal])
  @@ ("osl-3.0" :> [title |-> "Open Software License 3.0", src |-> Cal])
  @@ ("unlicense" :> [title |-> "The Unlicense", src |-> Cal])
  @@ ("wtfpl" :> [title |-> "\"Do What The F*ck You Want To Public License\"", src |-> Cal])

\* ------------------------------------------------------- make.py tables
TEMPLATES ==
  [ readme |-> <<"README.md">>,
    requirements |-> <<"requirements_dev.txt">>,
    setup |-> <<"setup-template.py">> ]

TEMPLATE_RENAMES == (<<"setup-template.py">> :> <<"setup.py">>)

\* '{0}.bak'.format(fn)
BakName(fn) == Append(fn, ".bak")

\* ------------------------------------------------ Formatter().parse(t)
RECURSIVE BraceAt(_, _)
\* position of the first brace of t at or after i; 0 when there is none
BraceAt(t, i) ==
  IF i > Len(t) THEN 0
  ELSE IF t[i] \in {LB, RB} THEN i
  ELSE BraceAt(t, i + 1)

\* one step of the markup iterator, from position s <= Len(t)
MarkupNext(t, s) ==
  LET b == BraceAt(t, s) IN
  IF b = 0
  THEN [err |-> FALSE, lit |-> SubSeq(t, s, Len(t)), hasField |-> FALSE,
        name |-> <<>>, next |-> Len(t) + 1]
  ELSE
    LET c == t[b]
        atEnd == (b = Len(t))
        bad == [err |-> TRUE, lit |-> <<>>, hasField |-> FALSE,
                name |-> <<>>, next |-> Len(t) + 1]
    IN
    IF c = RB /\ (atEnd \/ t[b + 1] # RB) THEN bad      \* Single '}'
    ELSE IF atEnd THEN bad                              \* Single '{'
    ELSE IF t[b + 1] = c
    THEN [err |-> FALSE, lit |-> SubSeq(t, s, b), hasField |-> FALSE,
          name |-> <<>>, next |-> b + 2]                \* escaped brace
    ELSE
      LET e == BraceAt(t, b + 1) IN
      IF e = 0 THEN bad                                 \* expected '}'
      ELSE IF t[e] = LB THEN bad                        \* unexpected '{'
      ELSE [err |-> FALSE, lit |-> SubSeq(t, s, b - 1), hasField |-> TRUE,
            name |-> SubSeq(t, b + 1, e - 1), next |-> e + 1]

RECURSIVE ParseFrom(_, _)
ParseFrom(t, s) ==
  IF s > Len(t) THEN [ok |-> TRUE, items |-> <<>>]
  ELSE
    LET m == MarkupNext(t, s) IN
    IF m.err THEN [ok |-> FALSE, items |-> <<>>]
    ELSE
      LET r == ParseFrom(t, m.next) IN
      [ok |-> r.ok,
       items |-> IF r.ok
                 THEN <<[lit |-> m.lit, hasField |-> m.hasField, name |-> m.name]>> \o r.items
                 ELSE <<>>]

Parse(t) == ParseFrom(t, 1)

\* [v[1] for v in Formatter().parse(t) if v[1] is not None]
RECURSIVE FieldNames(_)
FieldNames(items) ==
  IF items = <<>> THEN <<>>
  ELSE (IF Head(items).hasField THEN <<Head(items).name>> ELSE <<>>)
       \o FieldNames(Tail(items))

SeqRange(s) == { s[i] : i \in 1..Len(s) }

\* ------------------------------------------------ vars(args)[fk]
IsKey(a, name) == Len(name) = 1 /\ name[1] \in DOMAIN a
ArgVal(a, name) == a[name[1]]
LicenseOf(a) == a["license"][1]


\* ------------------------------------------------ fixup_template
\* names of fkeys that vars(args) does not hold
Missed(a, fkeys) == { n \in SeqRange(fkeys) : ~IsKey(a, n) }

\* registry[license]['classifier']
Classifier(registry, license) ==
  IF license \notin DOMAIN registry
  THEN [status |-> "KeyError", key |-> <<license>>, val |-> <<>>]
  ELSE IF "classifier" \notin DOMAIN registry[license]
  THEN [status |-> "KeyError", key |-> <<"classifier">>, val |-> <<>>]
  ELSE [status |-> "ok", key |-> NoKey, val |-> <<registry[license].classifier>>]

\* LICENSES[args.license]['classifier'], evaluated only when 'classlicense' was missed
ClassLicense(a) == Classifier(LICENSES, LicenseOf(a))

\* the replacements dictionary: values of vars(args) first, then the three
\* computed values for the names in missed
ReplacementsFor(a, base, fkeys, missed) ==
  (IF <<"classlicense">> \in missed
   THEN (<<"classlicense">> :> ClassLicense(a).val) ELSE <<>>)
  @@ (IF <<"project_name">> \in missed
      THEN (<<"project_name">> :> <<base>>) ELSE <<>>)
  @@ (IF <<"pkgreadme">> \in missed
      THEN (<<"pkgreadme">> :> TEMPLATES.readme) ELSE <<>>)
  @@ [n \in SeqRange(fkeys) \ missed |-> ArgVal(a, n)]

Replacements(a, base, fkeys) == ReplacementsFor(a, base, fkeys, Missed(a, fkeys))

NoText(status, key) == [status |-> status, key |-> key, text |-> <<>>]

RECURSIVE Format(_, _)
\* t.format(**replacements): fields are looked up left to right, literal
\* text has its doubled braces collapsed, values are inserted as they are
Format(items, repl) ==
  IF items = <<>> THEN [status |-> "ok", key |-> NoKey, text |-> <<>>]
  ELSE IF Head(items).hasField /\ Head(items).name = <<>>
  THEN NoText("IndexError", NoKey)
  ELSE IF Head(items).hasField /\ Head(items).name \notin DOMAIN repl
  THEN NoText("KeyError", Head(items).name)
  ELSE IF Format(Tail(items), repl).status # "ok"
  THEN Format(Tail(items), repl)
  ELSE [status |-> "ok", key |-> NoKey,
        text |-> Head(items).lit
                 \o (IF Head(items).hasField THEN repl[Head(items).name] ELSE <<>>)
                 \o Format(Tail(items), repl).text]

\* lines 326-349: the replacements are built (cl is the classifier lookup),
\* then the text is formatted
Fill(items, fkeys, a, base, cl) ==
  IF <<"classlicense">> \in Missed(a, fkeys) /\ cl.status # "ok"
  THEN NoText(cl.status, cl.key)
  ELSE Format(items, Replacements(a, base, fkeys))

\* lines 323-349 for the parse result p of the text t, whose fields are fkeys
SubstituteFields(t, a, base, p, fkeys) ==
  IF ~p.ok THEN NoText("ValueError", NoKey)
  ELSE IF Len(fkeys) > 0 THEN Fill(p.items, fkeys, a, base, ClassLicense(a))
  ELSE [status |-> "ok", key |-> NoKey, text |-> t]

SubstituteParsed(t, a, base, p) == SubstituteFields(t, a, base, p, FieldNames(p.items))

\* variant: the substituted text is scanned and formatted a second time
Again(a, base, r) ==
  IF r.status # "ok" THEN r ELSE SubstituteParsed(r.text, a, base, Parse(r.text))

SubstituteRescan(t, a, base) == Again(a, base, SubstituteParsed(t, a, base, Parse(t)))

\* variant: the text is formatted even when it holds no field
AlwaysParsed(a, base, p) ==
  IF ~p.ok THEN NoText("ValueError", NoKey)
  ELSE Fill(p.items, FieldNames(p.items), a, base, ClassLicense(a))

SubstituteAlways(t, a, base) == AlwaysParsed(a, base, Parse(t))

\* the text to write, or the exception raised before anything is written
Substitute(t, a, base) == SubstituteParsed(t, a, base, Parse(t))

\* variant: the file is copied to its new name and the old name is kept
RenameKeep(fsys, src, dst) == [fsys EXCEPT ![dst] = fsys[src]]

\* os.rename(src, dst) on the target directory
Rename(fsys, src, dst) == [fsys EXCEPT ![dst] = fsys[src], ![src] = Absent]

NoFixup(fsys, status, key) == [fs |-> fsys, status |-> status, key |-> key, ret |-> <<>>]

\* lines 355-362: the rename of a registered template and the returned name
Renamed(fsys, fn) ==
  IF fn \in DOMAIN TEMPLATE_RENAMES
  THEN [fs |-> Rename(fsys, fn, TEMPLATE_RENAMES[fn]), status |-> "ok",
        key |-> NoKey, ret |-> TEMPLATE_RENAMES[fn]]
  ELSE [fs |-> fsys, status |-> "ok", key |-> NoKey, ret |-> fn]

\* lines 351-362 once the text s to write is known: the backup copy, the
\* write, the rename; nothing of them when the substitution raised
Written(fsys, fn, s) ==
  IF s.status # "ok" THEN NoFixup(fsys, s.status, s.key)
  ELSE Renamed([fsys EXCEPT ![BakName(fn)] = fsys[fn], ![fn] = s.text], fn)

\* fixup_template(where, template, args) on the target directory fsys
fixup_template(fsys, base, fn, a) ==
  IF fsys[fn] = Absent THEN NoFixup(fsys, "FileNotFoundError", NoKey)
  ELSE Written(fsys, fn, Substitute(fsys[fn], a, base))

\* variant: an existing destination is not overwritten
CopyKeep(fsys, fn, content) ==
  IF fsys[fn] = Absent THEN [fsys EXCEPT ![fn] = content] ELSE fsys

\* shutil.copy2(src, dest) of init_package
CopyTemplate(fsys, fn, content) == [fsys EXCEPT ![fn] = content]



\* ------------------------------------------------ tables of the run
GITIGNORE_URLS ==
  << <<"https://raw.githubusercontent.com/github/gitignore/master/Global/macOS.gitignore">>,
     <<"https://raw.githubusercontent.com/github/gitignore/master/Python.gitignore">> >>

PACKAGE_URLS ==
  << <<"https://raw.githubusercontent.com/pypa/sampleproject/master/", "setup.cfg">>,
     <<"https://raw.githubusercontent.com/pypa/sampleproject/master/", "MANIFEST.in">> >>

PACKAGE_SUBDIRECTORIES ==
  << [dname |-> "scripts", init |-> TRUE],
     [dname |-> "tests", init |-> TRUE],
     [dname |-> "data", init |-> FALSE] >>

LICENSE_FIXES ==
  ("cal" :> [prefix |-> "https://raw.githubusercontent.com/github/choosealicense.com/gh-pages/_licenses/",
             suffix |-> ".txt"])

\* url.rsplit('/', 1)[-1]
UrlFile(url) == <<url[Len(url)]>>

LicenseFile == <<"LICENSE", ".txt">>
GitIgnore == <<".gitignore">>
ScriptName(base) == <<base, ".py">>
InitFile(dname) == <<dname, "__init__.py">>

\* os.path.splitext(fp)[0] + '.bak'
SplitExtBak(f) == Append(SubSeq(f, 1, Len(f) - 1), ".bak")

\* ------------------------------------------------ the world outside
FrontMatter == "---front matter---"

\* what a successful GET of url returns: texts of the choosealicense
\* collection start with a front-matter block, the others do not
Remote(url) ==
  IF Len(url) = 3 /\ url[1] = LICENSE_FIXES["cal"].prefix
  THEN <<FrontMatter, "text of", url[2]>>
  ELSE <<"text of", url[Len(url)]>>

\* frontmatter.load(fp).content
StripFrontMatter(text) ==
  IF text # <<>> /\ Head(text) = FrontMatter THEN Tail(text) ELSE text

\* content of a file after appending to it (open(..., 'a'))
Appended(old, new) == IF old = Absent THEN new ELSE old \o new

ReadmeText == <<"readme">>
ScriptText == <<"script">>
RequirementsText == <<"requirement">>

\* ------------------------------------------------ steps of a stage
\* A stage is the sequence of the calls its handler makes.  Exec runs them
\* in order on the execution state x and stops at the first exception.  The
\* external calls (shell commands, GETs) succeed or fail as the world
\* decides: k is the index of the step that fails, 0 when none does.
StRun(cmd, what, check, forced) ==
  [op |-> "run", cmd |-> cmd, file |-> what, check |-> check, forced |-> forced]
git_it(what) == StRun("git add && git commit", what, TRUE, FALSE)
git_it_ret == [op |-> "git_it ret"]
StGet(url, file) == [op |-> "get", url |-> url, file |-> file]
StCopy(file, text) == [op |-> "copy", file |-> file, text |-> text]
StAppend(file, text) == [op |-> "append", file |-> file, text |-> text]
StStrip(file) == [op |-> "strip", file |-> file]
StFixup(f) == [op |-> "fixup", file |-> f]
StMkdir(dname) == [op |-> "mkdir", file |-> <<dname>>]
StTouch(file) == [op |-> "touch", file |-> file]
StRaise(kind) == [op |-> "raise", kind |-> kind]
StLog(level, msg) == [op |-> "log", level |-> level, msg |-> msg]

Ev(op, arg) == [op |-> op, arg |-> arg]

\* run(cmd, where, check): the except clause reads `result`, which is not
\* bound when subprocess.run raised, so the handler itself raises before
\* logger.critical is called
run(x, st, fails) ==
  LET x1 == [x EXCEPT !.effects = Append(@, Ev(st.cmd, st.file)),
                      !.dir = IF st.cmd = "git init" /\ ~fails /\ @ = "absent"
                              THEN "dir" ELSE @]
  IN
  IF fails /\ st.check
  THEN [x1 EXCEPT !.raised = "UnboundLocalError",
                  !.failures = @ \cup {[cmd |-> st.cmd, check |-> TRUE]}]
  ELSE IF fails
  THEN [x1 EXCEPT !.failures = @ \cup {[cmd |-> st.cmd, check |-> FALSE]}]
  ELSE x1

\* variant: a fetch that goes on after a status other than 200
GetKeep(x, st, fails) ==
  LET x1 == [x EXCEPT !.effects = Append(@, Ev("GET", st.url))] IN
  IF fails THEN [x1 EXCEPT !.effects = Append(@, Ev("status not 200", st.url))]
  ELSE IF x.dir # "dir" THEN [x1 EXCEPT !.raised = "FileNotFoundError"]
  ELSE [x1 EXCEPT !.fs[st.file] = Appended(@, Remote(st.url))]

\* one iteration of fetch's first loop: the request, the status the world
\* answers with, and the append or the raise
Get(x, st, fails) ==
  LET x1 == [x EXCEPT !.effects = Append(@, Ev("GET", st.url))] IN
  IF fails THEN [x1 EXCEPT !.effects = Append(@, Ev("status not 200", st.url)),
                           !.raised = "Exception"]
  ELSE IF x.dir # "dir" THEN [x1 EXCEPT !.raised = "FileNotFoundError"]
  ELSE [x1 EXCEPT !.fs[st.file] = Appended(@, Remote(st.url))]

\* one iteration of fetch's strip_yaml loop
Strip(x, st) ==
  LET fp == st.file IN
  [x EXCEPT !.fs = [@ EXCEPT ![SplitExtBak(fp)] = x.fs[fp],
                             ![fp] = StripFrontMatter(x.fs[fp])]]

\* make_subdir's os.makedirs(target)
Mkdir(x, st) ==
  IF x.dir # "dir" THEN [x EXCEPT !.raised = "FileNotFoundError"]
  ELSE IF x.fs[st.file] # Absent
  THEN [x EXCEPT !.raised = "SystemExit",
                 !.logged = @ \cup {[level |-> "critical", msg |-> "subdirectory already exists"]}]
  ELSE [x EXCEPT !.fs[st.file] = IsDir, !.effects = Append(@, Ev("makedirs", st.file))]

\* dest_fn = fixup_template(where, template, args)
Fixed(x, r) ==
  [x EXCEPT !.fs = r.fs, !.ret = r.ret,
            !.raised = IF r.status = "ok" THEN "none" ELSE r.status]

Step(x, st, fails, base, a) ==
  CASE st.op = "run" -> run(x, st, fails \/ st.forced)
    [] st.op = "git_it ret" -> run(x, git_it(x.ret), fails)
    [] st.op = "get" -> Get(x, st, fails)
    [] st.op = "copy" ->
         IF x.dir # "dir" THEN [x EXCEPT !.raised = "FileNotFoundError"]
         ELSE [x EXCEPT !.fs[st.file] = st.text,
                        !.effects = Append(@, Ev("copy", st.file))]
    [] st.op = "append" ->
         IF x.dir # "dir" THEN [x EXCEPT !.raised = "FileNotFoundError"]
         ELSE [x EXCEPT !.fs[st.file] = Appended(@, st.text)]
    [] st.op = "touch" ->
         IF x.dir # "dir" THEN [x EXCEPT !.raised = "FileNotFoundError"]
         ELSE [x EXCEPT !.fs[st.file] = <<>>]
    [] st.op = "strip" -> Strip(x, st)
    [] st.op = "fixup" -> Fixed(x, fixup_template(x.fs, base, st.file, a))
    [] st.op = "mkdir" -> Mkdir(x, st)
    [] st.op = "makedirs" ->
         [x EXCEPT !.dir = "dir", !.effects = Append(@, Ev("makedirs", st.file))]
    [] st.op = "raise" -> [x EXCEPT !.raised = st.kind]
    [] st.op = "log" ->
         [x EXCEPT !.logged = @ \cup {[level |-> st.level, msg |-> st.msg]}]

RECURSIVE ExecFrom(_, _, _, _, _, _)
ExecFrom(steps, i, x, k, base, a) ==
  IF i > Len(steps) \/ x.raised # "none" THEN x
  ELSE ExecFrom(steps, i + 1, Step(x, steps[i], i = k, base, a), k, base, a)

Exec(steps, x, k, base, a) == ExecFrom(steps, 1, x, k, base, a)

\* the steps whose result the world decides
External(steps) == { i \in 1..Len(steps) : steps[i].op \in {"run", "git_it ret", "get"} }


\* ------------------------------------------------ the handlers as steps
\* fetch(targets, strip_yaml): every GET first, then the strip loop
fetch(targets, strip_yaml) ==
  [i \in 1..Len(targets) |-> StGet(targets[i][1], targets[i][2])]
  \o (IF strip_yaml
      THEN [i \in 1..Len(targets) |-> StStrip(targets[i][2])]
      ELSE <<>>)

\* '~/Envs/{0}'.format(os.path.basename(where))
EnvDir(base) == <<"~", "Envs", base>>
\* the directory the shell (and os.path.expanduser) takes that path to name
ExpandUser(path) == IF Head(path) = "~" THEN <<"$HOME">> \o Tail(path) ELSE path
\* os.path.exists(path): the path is taken as it is written
PathExists(path, existing) == path \in existing

create_venv(base, existing) ==
  IF PathExists(EnvDir(base), existing)
  THEN << StLog("critical", "venv already exists"), StRaise("SystemExit") >>
  ELSE << StRun("mkvirtualenv", EnvDir(base), FALSE, FALSE),
          StLog("info", "instantiated virtual environment") >>

create_git(base, d) ==
  << StRun("git init", <<base>>, TRUE, d = "file"),
     StLog("info", "initialized git repository") >>
  \o fetch([i \in 1..Len(GITIGNORE_URLS) |-> <<GITIGNORE_URLS[i], GitIgnore>>], FALSE)
  \o << StAppend(GitIgnore, <<"*.bak">>),
        git_it(GitIgnore),
        StLog("info", "instantiated .gitignore and committed it") >>

create_readme(git) ==
  << StCopy(TEMPLATES.readme, ReadmeText) >>
  \o (IF git THEN << git_it(TEMPLATES.readme) >> ELSE <<>>)
  \o << StLog("info", "instantiated readme") >>

init_script(base, git) ==
  << StCopy(ScriptName(base), ScriptText) >>
  \o (IF git THEN << git_it(ScriptName(base)) >> ELSE <<>>)
  \o << StLog("info", "added script template") >>

LicenseUrl(src, license) ==
  IF Head(src) = "::"
  THEN << LICENSE_FIXES[src[2]].prefix, license, LICENSE_FIXES[src[2]].suffix >>
  ELSE src

\* create_license once ld = LICENSES[license] is bound
LicenseSteps(ld, license, git) ==
  IF "src" \notin DOMAIN ld
  THEN << StLog("warning", "License data not found") >>
  ELSE
    fetch(<< <<LicenseUrl(ld.src, license), LicenseFile>> >>, TRUE)
    \o (IF git
        THEN << git_it(LicenseFile), StLog("info", "instantiated and committed license") >>
        ELSE << StRaise("UnboundLocalError") >>)       \* `title` is bound only under git

create_license(license, git) ==
  IF license \notin DOMAIN LICENSES THEN << StRaise("KeyError") >>
  ELSE LicenseSteps(LICENSES[license], license, git)

make_subdir(git, sub) ==
  << StMkdir(sub.dname) >>
  \o (IF sub.init
      THEN << StTouch(InitFile(sub.dname)) >>
           \o (IF git THEN << git_it(InitFile(sub.dname)) >> ELSE <<>>)
      ELSE <<>>)

RECURSIVE Concat(_)
Concat(ss) == IF ss = <<>> THEN <<>> ELSE Head(ss) \o Concat(Tail(ss))

init_package(git, setupText) ==
  LET targets == [i \in 1..Len(PACKAGE_URLS) |-> <<PACKAGE_URLS[i], UrlFile(PACKAGE_URLS[i])>>]
      templates == << <<TEMPLATES.requirements, RequirementsText>>,
                      <<TEMPLATES.setup, setupText>> >>
  IN
  fetch(targets, FALSE)
  \o Concat([i \in 1..Len(targets) |->
               IF git THEN << git_it(targets[i][2]) >> ELSE <<>>])
  \o Concat([i \in 1..Len(templates) |->
               << StCopy(templates[i][1], templates[i][2]), StFixup(templates[i][1]) >>
               \o (IF git THEN << git_it_ret >> ELSE <<>>)])
  \o Concat([i \in 1..Len(PACKAGE_SUBDIRECTORIES) |->
               make_subdir(git, PACKAGE_SUBDIRECTORIES[i])])

\* ------------------------------------------------ inputs
TemplateNames == {TEMPLATES.requirements, TEMPLATES.setup}
FileNames ==
  TemplateNames \cup { BakName(f) : f \in TemplateNames }
  \cup { TEMPLATE_RENAMES[f] : f \in DOMAIN TEMPLATE_RENAMES }
  \cup { TEMPLATES.readme, GitIgnore, LicenseFile, SplitExtBak(LicenseFile),
         ScriptName("myproj") }
  \cup { UrlFile(PACKAGE_URLS[i]) : i \in 1..Len(PACKAGE_URLS) }
  \cup { <<PACKAGE_SUBDIRECTORIES[i].dname>> : i \in 1..Len(PACKAGE_SUBDIRECTORIES) }
  \cup { InitFile(PACKAGE_SUBDIRECTORIES[i].dname) : i \in 1..Len(PACKAGE_SUBDIRECTORIES) }

Token(k) == <<LB, k, RB>>
Pieces ==
  { <<"Hello">>, <<LB>>, <<RB>> }
  \cup { Token(k) : k \in {"project_name", "classlicense", "pkgreadme",
                           "pkgversion", "undefined_key"} }

RECURSIVE Flatten(_)
Flatten(ps) == IF ps = <<>> THEN <<>> ELSE Head(ps) \o Flatten(Tail(ps))

TemplateTexts ==
  { Flatten(ps) : ps \in UNION { [1..n -> Pieces] : n \in 0..MaxPieces } }

LicenseChoices == {"mit", "cc-by-4.0", "none"}
ArgsSet ==
  { lic @@ opt :
      lic \in { ("license" :> <<l>>) : l \in LicenseChoices },
      opt \in { <<>>,
                ("pkgversion" :> <<LB, "classtopic", RB>>),
                ("pkgversion" :> <<"0.1">>) @@ ("project_name" :> <<"cfgname">>) } }

RunLicenses == {"mit", "gpl-3.0", "other", "cc-by-4.0", "none", "NONE"}
RunArgsSet == { ("license" :> <<l>>) @@ ("pkgversion" :> <<"0.1">>) : l \in RunLicenses }
RunTemplates == { <<"Hello", LB, "project_name", RB>>, <<LB, "undefined_key", RB>> }
FlagNames == {"create", "pyvenv", "git", "readme", "script", "package"}

\* str.lower() on the option values above: "NONE" is the only one of them
\* with a letter that lower() changes
LowerCase == ("NONE" :> "none")
Lower(s) == IF s \in DOMAIN LowerCase THEN LowerCase[s] ELSE s

\* ------------------------------------------------ state
VARIABLES
  template,    \* content of the template file under templates/
  fn,          \* os.path.basename(template)
  args,        \* vars(args): option name -> text
  where,       \* os.path.basename(where)
  fs,          \* the target directory: file name -> content or Absent
  pc,          \* position in one init_package iteration
  outcome,     \* result of the last fixup_template call
  runs,        \* number of the current run over the same target
  prevFs,      \* the target directory as the previous run left it
  flags,       \* the boolean switches of args
  existing,    \* the environment directories that exist, as paths
  dir,         \* the target path: "absent", "dir" or "file"
  rpc,         \* position of main(): the stage to handle next
  exitCode,    \* exit code of the process, -1 while it runs
  effects,     \* what the run did to the world and what it was answered, in order
  logged,      \* log records and output written
  raised,      \* the exception that ended the run, "none" otherwise
  failures,    \* shell commands that returned a non-zero status
  ran          \* the stages entered, in order

mvars == <<template, fn, args, where, fs, pc, outcome, runs, prevFs>>
rvars == <<flags, existing, dir, rpc, exitCode, effects, logged, raised, failures, ran>>
vars == <<mvars, rvars>>

NoOutcome == [status |-> "none", key |-> NoKey, ret |-> <<>>]
EmptyDir == [f \in FileNames |-> Absent]


\* ------------------------------------------------ the materializer
MatIdle ==
  /\ flags = [f \in FlagNames |-> FALSE]
  /\ existing = {}
  /\ dir = "dir"
  /\ rpc = "exited"
  /\ exitCode = -1
  /\ effects = <<>>
  /\ logged = {}
  /\ raised = "none"
  /\ failures = {}
  /\ ran = <<>>

MatInit ==
  /\ template \in TemplateTexts
  /\ fn \in TemplateNames
  /\ args \in ArgsSet
  /\ where = "myproj"
  /\ fs = EmptyDir
  /\ pc = "start"
  /\ outcome = NoOutcome
  /\ runs = 1
  /\ prevFs = EmptyDir
  /\ MatIdle

\* init_package: shutil.copy2(src, dest)
Copy ==
  /\ pc = "start"
  /\ fs' = CopyTemplate(fs, fn, template)
  /\ pc' = "copied"
  /\ UNCHANGED <<template, fn, args, where, outcome, runs, prevFs, rvars>>

\* init_package: dest_fn = fixup_template(where, template, args)
Fixup ==
  /\ pc = "copied"
  /\ LET r == fixup_template(fs, where, fn, args) IN
       /\ fs' = r.fs
       /\ outcome' = [status |-> r.status, key |-> r.key, ret |-> r.ret]
       /\ pc' = IF r.status = "ok" THEN "done" ELSE "failed"
  /\ UNCHANGED <<template, fn, args, where, runs, prevFs, rvars>>

\* the program is run again with the same inputs on the same target
Rerun ==
  /\ pc \in {"done", "failed"}
  /\ runs < MaxRuns
  /\ runs' = runs + 1
  /\ prevFs' = fs
  /\ pc' = "start"
  /\ outcome' = NoOutcome
  /\ UNCHANGED <<template, fn, args, where, fs, rvars>>

MatNext == Copy \/ Fixup \/ Rerun

MatSpec == MatInit /\ [][MatNext]_vars

\* ------------------------------------------------ the run of main()
Init ==
  /\ template \in RunTemplates
  /\ fn = TEMPLATES.setup
  /\ args \in RunArgsSet
  /\ where = "myproj"
  /\ fs = EmptyDir
  /\ pc = "idle"
  /\ outcome = NoOutcome
  /\ runs = 1
  /\ prevFs = EmptyDir
  /\ flags \in [FlagNames -> BOOLEAN]
  /\ existing \in SUBSET {EnvDir("myproj"), ExpandUser(EnvDir("myproj"))}
  /\ dir \in {"absent", "dir", "file"}
  /\ rpc = "main"
  /\ exitCode = -1
  /\ effects = <<>>
  /\ logged = {}
  /\ raised = "none"
  /\ failures = {}
  /\ ran = <<>>

\* execution state handed to a handler
X ==
  [fs |-> fs, dir |-> dir, effects |-> effects, logged |-> logged,
   raised |-> "none", failures |-> failures, ret |-> <<>>]

\* the try/except around main(args) at the bottom of the script
TopLevel(kind) ==
  IF kind \in {"ValueError", "NotImplementedError"}
  THEN {[level |-> "critical", msg |-> kind]}
  ELSE IF kind = "SystemExit" THEN {}
  ELSE {[level |-> "stdout", msg |-> "ERROR, UNEXPECTED EXCEPTION"]}

Commit(r, next) ==
  /\ fs' = r.fs
  /\ dir' = r.dir
  /\ effects' = r.effects
  /\ failures' = r.failures
  /\ raised' = r.raised
  /\ IF r.raised = "none"
     THEN rpc' = next /\ exitCode' = exitCode /\ logged' = r.logged
     ELSE rpc' = "exited" /\ exitCode' = 1
          /\ logged' = r.logged \cup TopLevel(r.raised)

\* variant: a stage that runs whether it is selected or not
StageAlways(name, next, selected, steps) ==
  /\ rpc = name
  /\ ran' = Append(ran, name)
  /\ \E k \in External(steps) \cup {0} :
       Commit(Exec(steps, X, k, where, args), next)
  /\ UNCHANGED <<template, fn, args, where, pc, outcome, runs, prevFs, flags, existing>>

\* `if args.<stage>: <handler>(...)` of main()
Stage(name, next, selected, steps) ==
  /\ rpc = name
  /\ IF selected
     THEN /\ ran' = Append(ran, name)
          /\ \E k \in External(steps) \cup {0} :
               Commit(Exec(steps, X, k, where, args), next)
     ELSE /\ rpc' = next
          /\ UNCHANGED <<fs, dir, effects, logged, raised, failures, exitCode, ran>>
  /\ UNCHANGED <<template, fn, args, where, pc, outcome, runs, prevFs, flags, existing>>

\* variant: main() without the mode check
MainNoCheck ==
  /\ rpc = "main"
  /\ rpc' = "create"
  /\ UNCHANGED <<fs, dir, effects, logged, raised, failures, exitCode>>
  /\ UNCHANGED <<template, fn, args, where, pc, outcome, runs, prevFs, flags, existing, ran>>

\* main(): the mode check that precedes the stages
Main ==
  /\ rpc = "main"
  /\ IF flags["script"] /\ flags["package"]
     THEN Commit([X EXCEPT !.raised = "ValueError"], "create")
     ELSE rpc' = "create"
          /\ UNCHANGED <<fs, dir, effects, logged, raised, failures, exitCode>>
  /\ UNCHANGED <<template, fn, args, where, pc, outcome, runs, prevFs, flags, existing, ran>>

\* create_directory(where)
create_directory(base, d) ==
  CASE d = "absent" ->
         << [op |-> "makedirs", file |-> <<base>>],
            StLog("info", "created new project directory") >>
    [] d = "dir" ->
         << StLog("critical", "directory already exists"), StRaise("SystemExit") >>
    [] d = "file" ->
         << StLog("info", "created new project directory") >>

CreateDirectory ==
  Stage("create", "pyvenv", flags["create"], create_directory(where, dir))

CreateVenv ==
  Stage("pyvenv", "git", flags["pyvenv"], create_venv(where, existing))

CreateGit ==
  Stage("git", "readme", flags["git"], create_git(where, dir))

CreateReadme ==
  Stage("readme", "script", flags["readme"], create_readme(flags["git"]))

InitScript ==
  Stage("script", "license", flags["script"], init_script(where, flags["git"]))

CreateLicense ==
  Stage("license", "package", Lower(LicenseOf(args)) # "none",
        create_license(LicenseOf(args), flags["git"]))

InitPackage ==
  Stage("package", "return", flags["package"], init_package(flags["git"], template))

\* sys.exit(0) after main returned
ExitOk ==
  /\ rpc = "return"
  /\ rpc' = "exited"
  /\ exitCode' = 0
  /\ UNCHANGED <<mvars, flags, existing, dir, effects, logged, raised, failures, ran>>

Next ==
  \/ Main
  \/ CreateDirectory
  \/ CreateVenv
  \/ CreateGit
  \/ CreateReadme
  \/ InitScript
  \/ CreateLicense
  \/ InitPackage
  \/ ExitOk

Spec == Init /\ [][Next]_vars


\* ================================================================ claims
\* Vocabulary of the claims, written from their wording and not from the
\* operators above.

\* the {identifier} patterns of a text: a "{", a non-empty brace-free
\* interior, the next "}"
Tokens(t) ==
  { SubSeq(t, p[1] + 1, p[2] - 1) :
      p \in { q \in (1..Len(t)) \X (1..Len(t)) :
                /\ q[1] + 1 < q[2]
                /\ t[q[1]] = LB
                /\ t[q[2]] = RB
                /\ \A k \in (q[1] + 1)..(q[2] - 1) : t[k] \notin {LB, RB} } }

HasPattern(t) == Tokens(t) # {}
HasBrace(t) == \E i \in 1..Len(t) : t[i] \in {LB, RB}

RECURSIVE ClosingAt(_, _)
\* position of the "}" that ends the token opened just before i, 0 if the
\* interior runs into another "{" or into the end of the text
ClosingAt(t, i) ==
  IF i > Len(t) \/ t[i] = LB THEN 0
  ELSE IF t[i] = RB THEN i
  ELSE ClosingAt(t, i + 1)

RECURSIVE TokensOnlyFrom(_, _)
TokensOnlyFrom(t, i) ==
  IF i > Len(t) THEN TRUE
  ELSE IF t[i] = RB THEN FALSE
  ELSE IF t[i] # LB THEN TokensOnlyFrom(t, i + 1)
  ELSE ClosingAt(t, i + 1) > i + 1 /\ TokensOnlyFrom(t, ClosingAt(t, i + 1) + 1)

\* the text is made of brace-free text and {identifier} tokens only
TokensOnly(t) == TokensOnlyFrom(t, 1)

RECURSIVE PairedFrom(_, _)
PairedFrom(t, i) ==
  IF i > Len(t) THEN TRUE
  ELSE IF t[i] \notin {LB, RB} THEN PairedFrom(t, i + 1)
  ELSE i < Len(t) /\ t[i + 1] = t[i] /\ PairedFrom(t, i + 2)

\* every brace of the text is one half of a doubled brace
BracesPaired(t) == PairedFrom(t, 1)

RECURSIVE ReplaceFrom(_, _, _)
\* a tokens-only text with every token replaced by vals[its identifier]
ReplaceFrom(t, i, vals) ==
  IF i > Len(t) THEN <<>>
  ELSE IF t[i] # LB THEN <<t[i]>> \o ReplaceFrom(t, i + 1, vals)
  ELSE vals[SubSeq(t, i + 1, ClosingAt(t, i + 1) - 1)]
       \o ReplaceFrom(t, ClosingAt(t, i + 1) + 1, vals)

Finished == pc \in {"done", "failed"}
Output == fs[outcome.ret]
FallbackKeys == {<<"project_name">>, <<"classlicense">>, <<"pkgreadme">>}
InConfig(n) == Len(n) = 1 /\ n[1] \in DOMAIN args
Unresolved == { n \in Tokens(template) : ~InConfig(n) /\ n \notin FallbackKeys }
ErrorNames == IF outcome.status = "KeyError" THEN {outcome.key} ELSE {}
ConfigValues == [n \in Tokens(template) |-> args[n[1]]]

\* C1: after any materialization call (copy, then fixup_template) the file
\* <template filename>.bak exists in the target directory and holds exactly
\* the pre-substitution template text, whether substitution succeeded or failed.
\* Stated for the templates made of text and tokens that do not involve the
\* license registry.
C1_BackupAfterAnyCall ==
  (Finished /\ TokensOnly(template) /\ <<"classlicense">> \notin Tokens(template)) =>
     fs[BakName(fn)] = template

\* C2: a template with at least one identifier that is neither a key of the
\* configuration nor a fallback key makes materialization fail with an error
\* naming exactly the set of all such identifiers; the copied file keeps its
\* unsubstituted content and nothing is renamed.  Stated for the templates
\* made of text and tokens that do not involve the license registry.
C2_FailsNamingAllUnresolved ==
  (/\ Finished
   /\ TokensOnly(template)
   /\ <<"classlicense">> \notin Tokens(template)
   /\ Unresolved # {}) =>
     /\ pc = "failed"
     /\ ErrorNames = Unresolved
     /\ fs[fn] = template
     /\ \A f \in DOMAIN TEMPLATE_RENAMES : fs[TEMPLATE_RENAMES[f]] = Absent

\* C3 (as stated): when every placeholder token of the template is a key of
\* the configuration, for every choice of values (values with braces
\* included) the written output has every token replaced by its value
\* literally and contains no remaining {identifier} pattern.
C3_NoPatternRemains ==
  (Finished /\ TokensOnly(template) /\ \A n \in Tokens(template) : InConfig(n)) =>
     /\ pc = "done"
     /\ Output = ReplaceFrom(template, 1, ConfigValues)
     /\ ~HasPattern(Output)

\* C3 (amended): when the template is made of brace-free text and tokens that
\* are all keys of the configuration, the written output has every token
\* replaced by its value literally, substituted text not being scanned again;
\* it contains no {identifier} pattern provided no substituted value contains
\* a brace.
C3_LiteralSubstitution ==
  (Finished /\ TokensOnly(template) /\ \A n \in Tokens(template) : InConfig(n)) =>
     /\ pc = "done"
     /\ Output = ReplaceFrom(template, 1, ConfigValues)
     /\ (\A n \in Tokens(template) : ~HasBrace(args[n[1]])) => ~HasPattern(Output)

C3_Witness ==
  /\ pc = "done"
  /\ TokensOnly(template)
  /\ <<"pkgversion">> \in Tokens(template)
  /\ \A n \in Tokens(template) : InConfig(n)
  /\ HasBrace(args["pkgversion"])
  /\ HasPattern(Output)

\* C4: resolution is configuration first, fallback second: a configured
\* identifier takes the configured value; otherwise project_name is the base
\* name of the target directory, pkgreadme the README template's file name
\* and classlicense the classifier text of the selected license, for any
\* license identifier of the registry.
C4_ResolutionChain ==
  (/\ Finished
   /\ TokensOnly(template)
   /\ \A n \in Tokens(template) : InConfig(n) \/ n \in FallbackKeys
   /\ LicenseOf(args) \in DOMAIN LICENSES) =>
     /\ pc = "done"
     /\ Output = ReplaceFrom(template, 1,
          [n \in Tokens(template) |->
             IF InConfig(n) THEN args[n[1]]
             ELSE IF n = <<"project_name">> THEN <<where>>
             ELSE IF n = <<"pkgreadme">> THEN <<"README.md">>
             ELSE <<LICENSES[LicenseOf(args)].classifier>>])

\* C5: for the template registered in the rename table (setup-template.py ->
\* setup.py) a successful materialization returns the registered name, the
\* substituted content is under that name and no file of the original name
\* remains; for an unregistered template the original name is returned and kept.
C5_Rename ==
  pc = "done" =>
     IF fn = <<"setup-template.py">>
     THEN /\ outcome.ret = <<"setup.py">>
          /\ fs[<<"setup.py">>] # Absent
          /\ fs[<<"setup.py">>] = Substitute(template, args, where).text
          /\ fs[fn] = Absent
     ELSE /\ outcome.ret = fn
          /\ fs[fn] # Absent
          /\ fs[fn] = Substitute(template, args, where).text

C5_Witness ==
  /\ pc = "done"
  /\ fn = <<"setup-template.py">>
  /\ Tokens(template) # {}
  /\ fs[<<"setup.py">>] # template
  /\ fs[BakName(fn)] = template

C7_SecondRunSameState ==
  (runs >= 2 /\ Finished) => fs = prevFs

C7_Witness ==
  /\ runs = 2
  /\ pc = "done"
  /\ Tokens(template) # {}
  /\ fs[BakName(fn)] = template
  /\ Output # template

Critical(msg) == [level |-> "critical", msg |-> msg] \in logged

\* C8: with both the script and the package flag selected the run reports a
\* configuration error and exits with code 1 before any stage runs: nothing
\* is created or attempted, whatever the other flags are.
C8_ModeConflict ==
  (flags["script"] /\ flags["package"]) =>
     /\ rpc \in {"main", "exited"}
     /\ ran = <<>>
     /\ effects = <<>>
     /\ fs = EmptyDir
     /\ rpc = "exited" => (exitCode = 1 /\ Critical("ValueError"))

C8_Witness ==
  /\ flags["script"] /\ flags["package"]
  /\ flags["create"] /\ flags["pyvenv"] /\ flags["git"] /\ flags["readme"]
  /\ dir = "absent"
  /\ rpc = "exited"
  /\ exitCode = 1

\* C9: if directory creation is selected and the target directory exists, or
\* virtual-environment creation is selected and the project's virtual
\* environment exists, the conflict is reported, the process exits with code
\* 1 and nothing after the conflicting stage is attempted (no mkvirtualenv
\* command, no git init, no copy, no fetch).
C9_ConflictExits ==
  [][ ( \/ (rpc = "create" /\ flags["create"] /\ dir = "dir")
        \/ (rpc = "pyvenv" /\ flags["pyvenv"]
              /\ ExpandUser(EnvDir(where)) \in existing) )
      => ( /\ rpc' = "exited"
           /\ exitCode' = 1
           /\ effects' = effects
           /\ \E r \in logged' \ logged : r.level = "critical" ) ]_vars

\* C10: when a shell command of a stage fails, with strict checking (git init,
\* every git add/commit) the command's captured output is logged and the run
\* halts with exit code 1; without it (virtual-environment creation) the
\* failure is ignored and the run continues with the next stage.
C10_CommandFailure ==
  [][ \A f \in failures' \ failures :
        IF f.check
        THEN /\ rpc' = "exited"
             /\ exitCode' = 1
             /\ Critical("subprocess execution failed, captured output")'
        ELSE /\ rpc' = "git"
             /\ exitCode' = -1 ]_vars

\* C11: when a remote fetch is answered with a non-success status an error is
\* raised at once: that answer is the last thing of the run (no later URL of
\* the fetch call is requested, no git commit is issued, no front matter is
\* stripped), the URL was requested once only, no later stage runs and the
\* process ends with a non-zero exit code.
C11_FetchFailureHalts ==
  \A i \in 1..Len(effects) :
    effects[i].op = "status not 200" =>
      /\ i = Len(effects)
      /\ Cardinality({ j \in 1..Len(effects) :
                         effects[j] = Ev("GET", effects[i].arg) }) = 1
      /\ i > 1 /\ effects[i - 1] = Ev("GET", effects[i].arg)
      /\ rpc = "exited"
      /\ exitCode \notin {0, -1}
      /\ ran # <<>>
      /\ ran[Len(ran)] \in {"git", "license", "package"}
      /\ ran[Len(ran)] = "license" => fs[SplitExtBak(LicenseFile)] = Absent

\* the first .gitignore URL fails under -g -r -k: the second URL is not
\* requested and neither the readme nor the package stage runs
C11_Witness ==
  /\ flags["git"] /\ flags["readme"] /\ flags["package"]
  /\ LicenseOf(args) = "mit"
  /\ effects # <<>>
  /\ effects[Len(effects)] = Ev("status not 200", GITIGNORE_URLS[1])
  /\ ran[Len(ran)] = "git"
  /\ rpc = "exited"
  /\ exitCode = 1

\* the stages in the order the claim gives them, and the place the run has
\* reached in it
StageOrder == <<"create", "pyvenv", "git", "readme", "script", "license", "package">>
StagePos(n) == CHOOSE i \in 1..Len(StageOrder) : StageOrder[i] = n
Reached ==
  IF rpc = "main" THEN 0
  ELSE IF rpc = "return" \/ (rpc = "exited" /\ exitCode = 0) THEN Len(StageOrder) + 1
  ELSE IF rpc = "exited" THEN 0
  ELSE StagePos(rpc)
IsCommit(e) == e.op = "git add && git commit"
IsGitInit(e) == e.op = "git init" /\ e.arg = <<where>>
RanInOrder ==
  /\ \A i \in 1..Len(ran) : \E k \in 1..Len(StageOrder) : StageOrder[k] = ran[i]
  /\ \A i, j \in 1..Len(ran) : i < j => StagePos(ran[i]) < StagePos(ran[j])
CommitsAfterInit ==
  \A i \in 1..Len(effects) :
    IsCommit(effects[i]) =>
      /\ flags["git"]
      /\ \E j \in 1..(i - 1) : IsGitInit(effects[j])
\* the stages whose turn has passed are in the record exactly when selected
RanWhenSelected(licenseSelected) ==
  \A k \in 1..Len(StageOrder) :
    LET n == StageOrder[k]
        selected == IF n = "license" THEN licenseSelected ELSE flags[n]
        hasRun == \E i \in 1..Len(ran) : ran[i] = n
    IN /\ hasRun => selected
       /\ (selected /\ k < Reached) => hasRun

\* C12 (as stated): the stages run one after another in the order directory
\* creation, virtual environment, git init, readme, script, license, package;
\* each runs at most once and only if selected, the license stage whenever
\* the license option is not 'none'; a git add/commit is issued only when git
\* is selected and never before git init of the target was executed.
C12_StageOrder ==
  /\ RanInOrder
  /\ RanWhenSelected(LicenseOf(args) # "none")
  /\ CommitsAfterInit

\* C12 (amended): as above, the license stage being selected whenever the
\* license option, letter case set aside, is not 'none'.
C12_StageOrderAnyCase ==
  /\ RanInOrder
  /\ RanWhenSelected(LicenseOf(args) \notin {"none", "NONE"})
  /\ CommitsAfterInit

\* a run of -c -p -g -r -k with the mit license that ends with exit code 0
C12_Witness ==
  /\ rpc = "exited"
  /\ exitCode = 0
  /\ ran = <<"create", "pyvenv", "git", "readme", "license", "package">>
  /\ \E i \in 1..Len(effects) : IsCommit(effects[i])

\* C13: when the license stage runs for a registry license that has a source
\* locator, in an existing target directory, and the fetch and every command
\* of the stage succeed, the stage completes normally: LICENSE.txt is written
\* with its front matter stripped, no exception ends the run and the run goes
\* on to the package stage, with git selected and without.
C13_LicenseStageCompletes ==
  [][ ( /\ rpc = "license"
        /\ ran' = Append(ran, "license")
        /\ LicenseOf(args) \in DOMAIN LICENSES
        /\ "src" \in DOMAIN LICENSES[LicenseOf(args)]
        /\ dir = "dir"
        /\ failures' = failures
        /\ \A i \in 1..Len(effects') : effects'[i].op # "status not 200" )
      => ( /\ fs'[LicenseFile] \notin {Absent, <<>>}
           /\ Head(fs'[LicenseFile]) # FrontMatter
           /\ raised' = "none"
           /\ rpc' = "package"
           /\ exitCode' = -1 ) ]_vars

====
